---- MODULE Spec2Model ----
(***************************************************************************)
(* Model of the 3I/ATLAS trajectory scripts:                               *)
(*   generate_trajectory.py        labeled-block parser, retrying fetch,   *)
(*                                 Kepler fallback, series builder          *)
(*   update_trajectory.py          merge / prune / rolling update           *)
(*   generate_atlas_trajectory.py  CSV parser, single-shot fetch,           *)
(*                                 hyperbolic and circular fallbacks        *)
(*   update_all_planets.py         configurable multi-body builder          *)
(*                                                                         *)
(* Time is counted in quarter days (6 h, the sampling step of the scripts) *)
(* from 2025-07-01 00:00.  Coordinates are integers in units of 1e-8 AU    *)
(* (AU/day for velocities).                                                *)
(***************************************************************************)
EXTENDS Integers, Sequences, FiniteSets, TLC

VARIABLES
    text,       \* response text handed to a parser: a sequence of lines
    parseOut,   \* what the parser returned for text (NotCalled before the call)
    existing,   \* update_trajectory.py: the stored series of one body
    newData,    \* the freshly fetched series of that body
    now,        \* datetime.now() of the update, in quarter days
    merged,     \* what merge_trajectory_data returned (NotCalled before the call)
    pruned,     \* what prune_old_data returned (NotCalled before the call)
    round,      \* number of updates completed
    entry,      \* the builder that runs: which script's entry point
    bodyIdx,    \* place in the builder's body list of the body being fetched
    attempt,    \* fetch_horizons_data: the loop variable of the retry loop
    waits,      \* fetch_horizons_data: the sleeps of the fetch in progress, or of the
                \* last fetch when none is in progress, in seconds
    data,       \* the builder's result so far: body key -> series
    failed,     \* keys of the bodies whose fetch gave up or came back empty
    atlasFailure, \* how the interstellar object's fetch failed ("" if it did not)
    built,      \* what the builder returned
    findSeries, \* find_position_at_date: the series it is given
    findTarget, \* find_position_at_date: the target date, a day number
    found,      \* what find_position_at_date returned (NotCalled before the call)
    solverIn,   \* the propagators: script, eccentricity and epoch of one evaluation
    solverOut,  \* the propagators: what the evaluation produced
    genIn,      \* the fallback generators: generator, interval and step of one call
    genOut,     \* what that call returned (NotCalled before the call)
    stored,     \* update_trajectory.py: the content of DATA_FILE
    lastUpdate  \* what the last run of update_trajectory_data met and returned

parseVars == <<text, parseOut>>
mergeVars == <<existing, newData, now, merged, pruned, round>>
buildVars == <<entry, bodyIdx, attempt, waits, data, failed, atlasFailure, built>>

findVars == <<findSeries, findTarget, found>>
orbitVars == <<solverIn, solverOut>>
genVars == <<genIn, genOut>>
updVars == <<stored, lastUpdate>>
calcVars == <<findVars, orbitVars, genVars, updVars>>

vars == <<parseVars, mergeVars, buildVars, calcVars>>

(***************************************************************************)
(* Bounds of the model                                                     *)
(***************************************************************************)
MaxLines == 6
\* most points in one stored or fetched series handed to an update
MaxPts == 2
\* most updates in a row
MaxRounds == 1
\* last day of the interval a builder asks for, counted from its first day
\* (the scripts ask for 2025-07-01 to 2026-01-31 or 2026-03-31)
EndDay == 2

(***************************************************************************)
(* Numbers as they are written in the response text, and float()           *)
(***************************************************************************)
\* A decimal literal d.dE+xx : mant holds the two digits "dd", exp the exponent.
NumText(neg, mant, exp) == [neg |-> neg, mant |-> mant, exp |-> exp]

RECURSIVE Pow10(_)
Pow10(n) == IF n <= 0 THEN 1 ELSE 10 * Pow10(n - 1)

\* float(text) of a literal d.dE+xx, in units of 1e-8
ToFloat(n) == (IF n.neg THEN -1 ELSE 1) * n.mant * Pow10(n.exp + 7)

(***************************************************************************)
(* Data points                                                             *)
(***************************************************************************)
\* A calendar date string.  fmt tells how the day is written:
\*   "mon"  2025-Jul-01 00:00:00.0000   (Horizons output)
\*   "iso"  2025-07-01 00:00:00         (strftime of the fallback generators)
\*   "none" missing or empty
DateStr(fmt, day, slot) == [fmt |-> fmt, day |-> day, slot |-> slot]

\* Julian Date of a calendar instant, in quarter days from 2025-07-01 00:00
JulianQ(day, slot) == 4 * day + slot

\* points without a 'jd' key carry NoJd
NoJd == 0 - 1

DataPoint(jd, date, position, velocity, calculated, gen) ==
    [jd |-> jd, date |-> date, position |-> position, velocity |-> velocity,
     calculated |-> calculated, gen |-> gen]

(***************************************************************************)
(* Lines of a Horizons response                                            *)
(***************************************************************************)
Line(kind, jdOk, day, slot, labels, fields) ==
    [kind |-> kind, jdOk |-> jdOk, day |-> day, slot |-> slot,
     labels |-> labels, fields |-> fields]

SOE   == Line("$$SOE", FALSE, 0, 0, <<>>, <<>>)
EOE   == Line("$$EOE", FALSE, 0, 0, <<>>, <<>>)
Blank == Line("blank", FALSE, 0, 0, <<>>, <<>>)

\* "2460857.500000000 = A.D. 2025-Jul-01 00:00:00.0000 TDB"
HeaderLine(day, slot) == Line("header", TRUE, day, slot, <<>>, <<>>)
\* a date line whose text before '=' is not a number
BadHeader == Line("header", FALSE, 0, 0, <<>>, <<>>)
\* " X = 1.6E-01 Y =-1.0E+00 Z = 5.8E-05": the labels of the line, in order
LabelLine(labels) == Line("labels", FALSE, 0, 0, labels, <<>>)

HdrA == HeaderLine(0, 0)
HdrB == HeaderLine(0, 1)
Labeled(label, num) == [label |-> label, num |-> num]
PosA == LabelLine(<<Labeled("X", NumText(FALSE, 16, 0 - 1)),
                    Labeled("Y", NumText(TRUE, 10, 0)),
                    Labeled("Z", NumText(FALSE, 58, 0 - 5))>>)
VelA == LabelLine(<<Labeled("VX", NumText(FALSE, 16, 0 - 2)),
                    Labeled("VY", NumText(FALSE, 26, 0 - 3)),
                    Labeled("VZ", NumText(FALSE, 36, 0 - 7))>>)

IsBlank(line)   == line.kind = "blank"
HasEquals(line) == line.kind \in {"header", "labels"}
HasAD(line)     == line.kind = "header"


(***************************************************************************)
(* parse_horizons_vectors (generate_trajectory.py): labeled-block layout   *)
(***************************************************************************)
\* the conversion left out: the Horizons axes are passed through
horizons_axes_kept(x, y, z) == <<x, y, z>>

\* Conversion: Three.js [x, y, z] = Horizons [x, z, -y]
horizons_to_threejs(x, y, z) == <<x, z, 0 - y>>

\* re.search(r'<axis>\s*=\s*(number)', line): the first place of the line where
\* the text "<axis> = number" occurs.  The pattern is not anchored, so the
\* label VX also ends in the text "X = number".
LabelHits(line, axis) ==
    {k \in 1..Len(line.labels) : line.labels[k].label \in {axis, "V" \o axis}}

VLabelHits(line, axis) ==
    {k \in 1..Len(line.labels) : line.labels[k].label = "V" \o axis}

Min(S) == CHOOSE m \in S : \A n \in S : m <= n

MatchGroup(line, hits) == ToFloat(line.labels[Min(hits)].num)

PosMatches(line) == \A axis \in {"X", "Y", "Z"} : LabelHits(line, axis) # {}
VelMatches(line) == \A axis \in {"X", "Y", "Z"} : VLabelHits(line, axis) # {}

ParsedPoint(hdr, posLine, velLine) ==
    DataPoint(JulianQ(hdr.day, hdr.slot),
              DateStr("mon", hdr.day, hdr.slot),
              horizons_to_threejs(MatchGroup(posLine, LabelHits(posLine, "X")),
                                  MatchGroup(posLine, LabelHits(posLine, "Y")),
                                  MatchGroup(posLine, LabelHits(posLine, "Z"))),
              horizons_to_threejs(MatchGroup(velLine, VLabelHits(velLine, "X")),
                                  MatchGroup(velLine, VLabelHits(velLine, "Y")),
                                  MatchGroup(velLine, VLabelHits(velLine, "Z"))),
              FALSE, "parsed")

\* the while loop over the lines of the data section; i is the 1-based index
RECURSIVE LabeledLoop(_, _, _)
LabeledLoop(lines, i, data_points) ==
    IF i > Len(lines) THEN data_points
    ELSE IF IsBlank(lines[i]) THEN LabeledLoop(lines, i + 1, data_points)
    ELSE IF ~(HasEquals(lines[i]) /\ HasAD(lines[i]))
         THEN LabeledLoop(lines, i + 1, data_points)
    ELSE IF ~lines[i].jdOk              \* float() raises, caught; i += 1
         THEN LabeledLoop(lines, i + 1, data_points)
    ELSE IF i + 1 > Len(lines) THEN data_points                  \* break
    ELSE IF ~PosMatches(lines[i + 1])   \* i += 1; continue
         THEN LabeledLoop(lines, i + 2, data_points)
    ELSE IF i + 2 > Len(lines) THEN data_points                  \* break
    ELSE IF ~VelMatches(lines[i + 2])   \* i += 1; continue
         THEN LabeledLoop(lines, i + 3, data_points)
    ELSE LabeledLoop(lines, i + 3,
             Append(data_points, ParsedPoint(lines[i], lines[i + 1], lines[i + 2])))

\* re.search(r'\$\$SOE\s*\n(.*?)\$\$EOE', text, re.DOTALL): the leftmost $$SOE
\* that is followed by a line break and, later, by a $$EOE
SoeMatches(lines) ==
    {s \in 1..Len(lines) :
        /\ lines[s] = SOE
        /\ \E e \in (s + 1)..Len(lines) : lines[e] = EOE}

\* group(1): the lines between that $$SOE and the first $$EOE after it
DataSection(lines) ==
    LET s == Min(SoeMatches(lines))
        e == Min({k \in (s + 1)..Len(lines) : lines[k] = EOE})
    IN  SubSeq(lines, s + 1, e - 1)

\* str.strip() of the section: leading and trailing blank lines go
RECURSIVE StripLines(_)
StripLines(lines) ==
    IF lines = <<>> THEN <<>>
    ELSE IF IsBlank(Head(lines)) THEN StripLines(Tail(lines))
    ELSE IF IsBlank(lines[Len(lines)]) THEN StripLines(SubSeq(lines, 1, Len(lines) - 1))
    ELSE lines

Returned(rows) == [raised |-> "", rows |-> rows]
Raised(exc)    == [raised |-> exc, rows |-> <<>>]
NotCalled      == [raised |-> "not called", rows |-> <<>>]

\* no evaluation of a propagator asked for
NoEvaluation == [script |-> "none", e |-> 0, t |-> 0, lib |-> ""]

\* what a builder returned: ok is its return value (or that it saved its file)
\* written: "yes" the output file was written, "error" the write failed,
\* "no" the run returned before the write
Built(ok, milestones, written) ==
    [status |-> "returned", ok |-> ok, milestones |-> milestones, written |-> written]
NotBuilt == [status |-> "running", ok |-> FALSE, milestones |-> <<>>, written |-> "no"]

parse_horizons_vectors(result_text) ==
    IF SoeMatches(result_text) = {}
    THEN Raised("ValueError")
    ELSE Returned(LabeledLoop(StripLines(DataSection(result_text)), 1, <<>>))

(***************************************************************************)
(* HorizonsAPIClient._parse_vector_data (generate_atlas_trajectory.py):    *)
(* CSV layout                                                              *)
(***************************************************************************)
\* one comma-separated field: a number, a calendar date, or other text
Field(kind, val) == [kind |-> kind, val |-> val]
NumField(v)           == Field("number", v)
DateField(day, slot)  == Field("date", JulianQ(day, slot))
WordField             == Field("word", 0)
EmptyField            == Field("empty", 0)

CsvLine(fields) == Line("csv", FALSE, 0, 0, <<>>, fields)
\* a non-blank line without a comma
NoComma == Line("text", FALSE, 0, 0, <<>>, <<>>)

\* "2460857.5, A.D. 2025-Jul-01 00:00:00.0000, X, Y, Z, VX, VY, VZ,"
CsvRow(day, slot, v) ==
    CsvLine(<<NumField(JulianQ(day, slot)), DateField(day, slot),
              NumField(v), NumField(v + 1), NumField(v + 2),
              NumField(v + 3), NumField(v + 4), NumField(v + 5), EmptyField>>)

RowA == CsvRow(0, 0, 10)
RowB == CsvRow(0, 1, 20)
\* seven fields: the row lost VZ and the trailing comma
Row7 == CsvLine(SubSeq(CsvRow(0, 2, 30).fields, 1, 7))
\* eight fields or more, one vector field is not a number
RowBad == CsvLine([CsvRow(0, 3, 40).fields EXCEPT ![4] = WordField])

HasComma(line) == line.kind = "csv"
FloatOk(field) == field.kind = "number"

CsvPoint(parts) ==
    DataPoint(parts[1].val,
              DateStr("mon", parts[2].val \div 4, parts[2].val % 4),
              <<parts[3].val, parts[4].val, parts[5].val>>,
              <<parts[6].val, parts[7].val, parts[8].val>>,
              FALSE, "parsed")

RECURSIVE CsvLoop(_, _, _, _)
CsvLoop(lines, i, in_data, vectors) ==
    IF i > Len(lines) THEN vectors
    ELSE IF lines[i] = SOE THEN CsvLoop(lines, i + 1, TRUE, vectors)
    ELSE IF lines[i] = EOE THEN vectors                          \* break
    ELSE IF ~in_data \/ IsBlank(lines[i]) \/ ~HasComma(lines[i])
         THEN CsvLoop(lines, i + 1, in_data, vectors)
    ELSE IF Len(lines[i].fields) < 8
         THEN CsvLoop(lines, i + 1, in_data, vectors)
    ELSE IF \E k \in {1, 3, 4, 5, 6, 7, 8} : ~FloatOk(lines[i].fields[k])
         THEN CsvLoop(lines, i + 1, in_data, vectors)            \* except: continue
    ELSE CsvLoop(lines, i + 1, in_data, Append(vectors, CsvPoint(lines[i].fields)))

\* in_data starts out set: rows ahead of the start marker are read too
_parse_vector_data_in_data_set(t) == Returned(CsvLoop(t, 1, TRUE, <<>>))

_parse_vector_data(t) == Returned(CsvLoop(t, 1, FALSE, <<>>))

(***************************************************************************)
(* update_trajectory.py: merge_trajectory_data and prune_old_data          *)
(***************************************************************************)
\* point.get('date', '').split()[0]: the date part of the date string
DateKey(p) == <<p.date.fmt, p.date.day>>

\* ''.split()[0] raises IndexError
HasNoDate(p) == p.date.fmt = "none"

\* merged[date_key] = point on a dict, kept as the list of its items in
\* insertion order: a key that is present keeps its place and gets the value
DictPut(items, key, val) ==
    IF \E k \in 1..Len(items) : items[k][1] = key
    THEN [k \in 1..Len(items) |-> IF items[k][1] = key THEN <<key, val>> ELSE items[k]]
    ELSE Append(items, <<key, val>>)

\* the loop "for point in points: merged[date_key] = point": the keys of
\* items keep their places, the new keys follow in the order they first come
\* in points, and a key of points gets the last of its points
DictPutAll(items, points) ==
    LET n         == Len(points)
        known(k)  == \E j \in 1..Len(items) : items[j][1] = DateKey(points[k])
        first(k)  == \A j \in 1..(k - 1) : DateKey(points[j]) # DateKey(points[k])
        added     == SelectSeq([k \in 1..n |-> k], LAMBDA k : ~known(k) /\ first(k))
        given(key) == \E k \in 1..n : DateKey(points[k]) = key
        last(key) ==
            points[CHOOSE k \in 1..n :
                      /\ DateKey(points[k]) = key
                      /\ \A j \in (k + 1)..n : DateKey(points[j]) # key]
    IN  [k \in 1..Len(items) |->
            IF given(items[k][1]) THEN <<items[k][1], last(items[k][1])>> ELSE items[k]]
        \o [k \in 1..Len(added) |->
               <<DateKey(points[added[k]]), last(DateKey(points[added[k]]))>>]

DictValues(items) == [k \in 1..Len(items) |-> items[k][2]]

\* x.get('jd', 0)
JdSortKey(p) == IF p.jd = NoJd THEN 0 ELSE p.jd

\* the place the point at place i gets in a stable ascending sort: behind
\* the points with a smaller key and the earlier points with the same key
PlaceByJd(points, i) ==
    Cardinality({j \in 1..Len(points) :
                    \/ JdSortKey(points[j]) < JdSortKey(points[i])
                    \/ JdSortKey(points[j]) = JdSortKey(points[i]) /\ j <= i})

\* list.sort(key=jd): stable, ascending
SortByJd(points) ==
    [r \in 1..Len(points) |->
        points[CHOOSE i \in 1..Len(points) : PlaceByJd(points, i) = r]]

merge_trajectory_data(old, new) ==
    IF old = <<>> THEN Returned(new)
    ELSE IF new = <<>> THEN Returned(old)
    ELSE IF \E k \in 1..Len(old \o new) : HasNoDate((old \o new)[k])
         THEN Raised("IndexError")
    ELSE Returned(SortByJd(DictValues(DictPutAll(DictPutAll(<<>>, old), new))))

HistoricalDays == 30

\* a parser that also reads the month-name dates of the ephemeris source
IsoParsesMonthNames(p) == p.date.fmt # "none"

\* datetime.fromisoformat(date_str) of the date part; anything else raises
IsoParses(p) == p.date.fmt = "iso"

\* a prune that drops the points whose date it cannot read
PruneKeepsReadableOnly(p, cutoff_date) ==
    IsoParses(p) /\ 4 * p.date.day >= cutoff_date - 4 * HistoricalDays

\* keeps the point: its date on or after cutoff - 30 days, or it does not parse
PruneKeeps(p, cutoff_date) ==
    IF IsoParses(p)
    THEN 4 * p.date.day >= cutoff_date - 4 * HistoricalDays
    ELSE TRUE

\* the loop appends the points it keeps, in their order
prune_old_data(trajectory, cutoff_date) ==
    SelectSeq(trajectory, LAMBDA point : PruneKeeps(point, cutoff_date))

(***************************************************************************)
(* The fallback generators                                                 *)
(***************************************************************************)
\* The numbers of a calculated state vector are not part of this model: a
\* calculated point carries the epoch it was computed for and a zero vector.
NoVector == <<0, 0, 0>>

IsoDate(t) == DateStr("iso", t \div 4, t % 4)

\* a point of kepler_fallback_trajectory: jd, date, position, velocity
KeplerPoint(t) == DataPoint(t, IsoDate(t), NoVector, NoVector, FALSE, "kepler")

\* what calculate_position returns: no 'jd', 'calculated': True
calculate_position(t) == DataPoint(NoJd, IsoDate(t), NoVector, NoVector, TRUE, "hyperbolic")

\* a point of generate_planet_orbit: no 'jd', 'calculated': True
CircularPoint(t) == DataPoint(NoJd, IsoDate(t), NoVector, NoVector, TRUE, "circular")

\* while current_dt <= end_dt: ...; current_dt += timedelta(hours=step_hours)
RECURSIVE kepler_loop(_, _, _)
kepler_loop(current, end, step) ==
    IF current <= end
    THEN <<KeplerPoint(current)>> \o kepler_loop(current + step, end, step)
    ELSE <<>>

\* dates are days, the step is in quarter days
kepler_fallback_trajectory(start_date, end_date, step) ==
    kepler_loop(4 * start_date, 4 * end_date, step)

RECURSIVE fallback_loop(_, _, _)
fallback_loop(current, end, delta) ==
    IF current <= end
    THEN <<calculate_position(current)>> \o fallback_loop(current + delta, end, delta)
    ELSE <<>>

generate_fallback_trajectory(start_date, end_date, hours_step) ==
    fallback_loop(4 * start_date, 4 * end_date, hours_step)

\* the keys of planet_params
PlanetParams == {"earth", "mars", "jupiter"}

RECURSIVE planet_loop(_, _, _)
planet_loop(current, end, delta) ==
    IF current <= end
    THEN <<CircularPoint(current)>> \o planet_loop(current + delta, end, delta)
    ELSE <<>>

generate_planet_orbit(planet_name, start_date, end_date, hours_step) ==
    IF planet_name \notin PlanetParams
    THEN <<>>
    ELSE planet_loop(4 * start_date, 4 * end_date, hours_step)

(***************************************************************************)
(* find_position_at_date (generate_trajectory.py)                          *)
(***************************************************************************)
\* None
None == <<>>

Abs(x) == IF x < 0 THEN 0 - x ELSE x

\* the scan with "diff <= min_diff": the last of the closest points wins
RECURSIVE find_loop_last_wins(_, _, _)
find_loop_last_wins(trajectory, target_day, best) ==
    IF trajectory = <<>> THEN best[2]
    ELSE LET point == Head(trajectory)
             diff  == Abs(point.date.day - target_day)
         IN  IF IsoParses(point) /\ (best[1] < 0 \/ diff <= best[1])
             THEN find_loop_last_wins(Tail(trajectory), target_day, <<diff, point.position>>)
             ELSE find_loop_last_wins(Tail(trajectory), target_day, best)

\* the scan: best is <<min_diff, best_match>>, min_diff = -1 standing for inf
RECURSIVE find_loop(_, _, _)
find_loop(trajectory, target_day, best) ==
    IF trajectory = <<>> THEN best[2]
    ELSE LET point == Head(trajectory)
             diff  == Abs(point.date.day - target_day)
         IN  IF IsoParses(point) /\ (best[1] < 0 \/ diff < best[1])
             THEN find_loop(Tail(trajectory), target_day, <<diff, point.position>>)
             ELSE find_loop(Tail(trajectory), target_day, best)

find_position_at_date(trajectory, target_day) ==
    find_loop(trajectory, target_day, <<0 - 1, None>>)

(***************************************************************************)
(* Real numbers of the propagators: fixed point, four decimals             *)
(***************************************************************************)
\* A real x is the integer x * FP, rounded toward zero as IEEE rounding is
\* symmetric in the sign.  The model computes with magnitudes below 2^31 / FP.
FP == 10000

Sign(x) == IF x > 0 THEN 1 ELSE IF x < 0 THEN 0 - 1 ELSE 0

\* |a| * |b| / FP of two magnitudes, without an intermediate a * b
MulMag(a, b) ==
    LET ah == a \div FP
        al == a % FP
        bh == b \div FP
        bl == b % FP
    IN  ah * bh * FP + ah * bl + al * bh + (al * bl) \div FP

\* a * b
Mul(a, b) == Sign(a) * Sign(b) * MulMag(Abs(a), Abs(b))

\* floor(a * 10^k / b) for magnitudes, by long division
RECURSIVE LongDiv(_, _, _)
LongDiv(a, b, k) ==
    IF k = 0 THEN a \div b
    ELSE (a \div b) * Pow10(k) + LongDiv((a % b) * 10, b, k - 1)

\* floor(a * 10^k / b); a divisor of more than nine digits is cut to nine
RECURSIVE DivDigits(_, _, _)
DivDigits(a, b, k) ==
    IF b >= 200000000 THEN DivDigits(a \div 10, b \div 10, k)
    ELSE LongDiv(a, b, k)

\* |a| / |b| of two magnitudes
DivMag(a, b) == DivDigits(a, b, 4)

\* a / b, b # 0
Div(a, b) == Sign(a) * Sign(b) * DivMag(Abs(a), Abs(b))

\* math.sqrt of a magnitude: the smallest r in (lo, hi] with r * r >= a
RECURSIVE SqrtBetween(_, _, _)
SqrtBetween(a, lo, hi) ==
    IF hi - lo <= 1 THEN hi
    ELSE LET mid == (lo + hi) \div 2
         IN  IF MulMag(mid, mid) >= a
             THEN SqrtBetween(a, lo, mid)
             ELSE SqrtBetween(a, mid, hi)

Sqrt(a) ==
    IF a = 0 THEN 0
    ELSE SqrtBetween(a, 0, IF a < FP THEN FP ELSE Min({a, 4000000}))

\* math.exp at the whole numbers 0..12
ExpWhole ==
    <<27183, 73891, 200855, 545982, 1484132, 4034288, 10966332, 29809580,
      81030839, 220264658, 598741417, 1627547914>>

\* the Taylor sum 1 + f + f^2/2! + ... of a fraction 0 <= f < 1, from the
\* i-th term on
RECURSIVE ExpTerms(_, _, _)
ExpTerms(f, term, i) ==
    IF term = 0 THEN 0
    ELSE term + ExpTerms(f, MulMag(term, f) \div i, i + 1)

\* math.exp(x), 0 <= x < 13
ExpMag(x) ==
    LET k    == x \div FP
        frac == ExpTerms(x % FP, FP, 1)
    IN  IF k = 0 THEN frac ELSE MulMag(ExpWhole[k], frac)

\* math.exp(-x), 0 <= x < 13
ExpNeg(x) == DivMag(FP, ExpMag(x))

\* math.sinh, math.cosh
Sinh(x) == Sign(x) * ((ExpMag(Abs(x)) - ExpNeg(Abs(x))) \div 2)
Cosh(x) == (ExpMag(Abs(x)) + ExpNeg(Abs(x))) \div 2

\* math.log of a magnitude x >= 1: the largest y with exp(y) <= x
RECURSIVE LnBetween(_, _, _)
LnBetween(x, lo, hi) ==
    IF hi - lo <= 1 THEN lo
    ELSE LET mid == (lo + hi) \div 2
         IN  IF ExpMag(mid) <= x
             THEN LnBetween(x, mid, hi)
             ELSE LnBetween(x, lo, mid)

Ln(x) == LnBetween(x, 0, 12 * FP)

(***************************************************************************)
(* The hyperbolic propagators                                              *)
(***************************************************************************)
\* MU_SUN = 2.959122083e-4 and mu = 0.000295912208286, in units of 1e-8
MU_SUN8 == 29591

\* ATLAS_ELEMENTS of generate_atlas_trajectory.py: 6.139587836..., 1.356419039...
AtlasEccentricity == 61396
AtlasPerihelionAu == 13564

\* ATLAS_ELEMENTS of generate_trajectory.py: 'e': 6.14, 'q': 1.36
KeplerEccentricity == 61400
KeplerPerihelionAu == 13600

\* for _ in range(10)
NewtonIterations == 10

\* the smallest r in (lo, hi] with r * r >= x, for whole numbers
RECURSIVE RootBetween(_, _, _)
RootBetween(x, lo, hi) ==
    IF hi - lo <= 1 THEN hi
    ELSE LET mid == (lo + hi) \div 2
         IN  IF mid * mid >= x
             THEN RootBetween(x, lo, mid)
             ELSE RootBetween(x, mid, hi)

\* n = sqrt(mu / |a|^3); |a|^3 and mu / |a|^3 are kept with eight decimals
MeanMotion(a) ==
    LET a3 == MulMag(Abs(a) * Abs(a), Abs(a))
        n2 == DivDigits(MU_SUN8, a3, 8)
    IN  IF n2 = 0 THEN 0 ELSE RootBetween(n2, 0, 46340)

\* math.sinh and math.cosh raise OverflowError above 710.4758
SinhLimit == 7104758

\* days from 2025-07-01 00:00 to the perihelion of calculate_position,
\* 2025-10-29 11:33:16
AtlasPerihelionDay == 1204814

\* the first Newton step takes math.sinh(M) and math.cosh(M)
sinh_overflows(M) == Abs(M) > SinhLimit

\* e * sinh(F) - F - M
KeplerResidual(e, M, F) == Mul(e, Sinh(F)) - F - M

\* F = F - (e * math.sinh(F) - F - M) / (e * math.cosh(F) - 1)
NewtonStep(e, M, F) ==
    F - Div(KeplerResidual(e, M, F), Mul(e, Cosh(F)) - FP)

RECURSIVE NewtonLoop(_, _, _, _)
NewtonLoop(e, M, F, k) ==
    IF k = 0 THEN F ELSE NewtonLoop(e, M, NewtonStep(e, M, F), k - 1)

\* a perihelion one day early
MeanAnomalyDayOff(n, t) == Mul(n, t + FP)

\* M = n * t
MeanAnomaly(n, t) == Mul(n, t)

\* the radius with the sign of the cosh term turned
RadiusSignTurned(a, e, F) == Mul(a, FP + Mul(e, Cosh(F)))

\* r = a * (1 - e * cosh(F))
Radius(a, e, F) == Mul(a, FP - Mul(e, Cosh(F)))

\* what an evaluation produced; raised = "" for a returned point.  r is the
\* radius the position is built from, nan tells that the position is NaN,
\* how names the way F was found.
Evaluated(how, M, F, e, a, nan) ==
    [raised |-> "", rows |-> <<>>, how |-> how, M |-> M, F |-> F,
     residual |-> Abs(KeplerResidual(e, M, F)),
     r |-> Radius(a, e, F), nan |-> nan]

EvaluationRaised(exc) ==
    [raised |-> exc, rows |-> <<>>, how |-> "", M |-> 0, F |-> 0,
     residual |-> 0, r |-> 0, nan |-> FALSE]

\* the square root taken of the absolute value
SqrtRatioOfAbs(e) == "number"

\* sqrt((e + 1) / (e - 1)): there is no real root of a negative ratio
SqrtRatio(e) == IF Div(e + FP, e - FP) < 0 THEN "no root" ELSE "number"

\* OrbitalMechanicsCalculator.calculate_position for the time t since
\* perihelion, with the elements e and q.  With e < 1 the call ends in an
\* exception whatever the loop did: the loop can only raise (division by
\* zero, overflow), and math.sqrt of the negative ratio raises after it.
calculate_position_solve(e, q, t) ==
    IF e = FP THEN EvaluationRaised("ZeroDivisionError")
    ELSE IF SqrtRatio(e) = "no root" THEN EvaluationRaised("ValueError")
    ELSE LET a == Div(q, FP - e)
             M == MeanAnomaly(MeanMotion(a), t)
             F == NewtonLoop(e, M, M, NewtonIterations)
         IN  IF sinh_overflows(M)
             THEN EvaluationRaised("OverflowError")
             ELSE Evaluated("newton", M, F, e, a, FALSE)

\* scipy.optimize.newton(func, F_guess, maxiter=20) either returns a root of
\* func or raises RuntimeError when it did not converge.  The root of
\* e * sinh(f) - f - M for M >= 0 is found here by bisection between 0 and
\* the first whole number where func is positive.
RECURSIVE FirstPositive(_, _, _)
FirstPositive(e, M, k) ==
    IF KeplerResidual(e, M, k * FP) > 0 THEN k * FP ELSE FirstPositive(e, M, k + 1)

RECURSIVE Bisect(_, _, _, _)
Bisect(e, M, lo, hi) ==
    IF hi - lo <= 1 THEN lo
    ELSE LET mid == (lo + hi) \div 2
         IN  IF KeplerResidual(e, M, mid) <= 0
             THEN Bisect(e, M, mid, hi)
             ELSE Bisect(e, M, lo, mid)

newton(e, M) == Sign(M) * Bisect(e, Abs(M), 0, FirstPositive(e, Abs(M), 1))

\* F_guess = np.sign(M) * np.log(abs(M) + 1), also the F of the except branch
F_guess(M) == Sign(M) * Ln(Abs(M) + FP)

\* |M| > 50: F = sign(M) * (log(2|M|/e) + log(1 + sqrt(1 + (2|M|/e)^2)))
F_asymptotic(e, M) ==
    LET x == DivMag(2 * Abs(M), e)
    IN  Sign(M) * (Ln(x) + Ln(FP + Sqrt(FP + MulMag(x, x))))

\* abs(M) > 50
AsymptoticLimit == 50

\* One pass of the loop of kepler_fallback_trajectory for the time t since
\* perihelion, with the elements e and q; lib is what the library solver
\* did, "converged" or "raised".  np.sqrt of a negative ratio is NaN, and so
\* is every coordinate built from it.
kepler_fallback_solve(e, q, t, lib) ==
    IF e = FP THEN EvaluationRaised("ZeroDivisionError")
    ELSE LET a   == Div(0 - q, e - FP)
             M   == MeanAnomaly(MeanMotion(a), t)
             nan == SqrtRatio(e) = "no root"
         IN  IF Abs(M) > AsymptoticLimit * FP
             THEN Evaluated("asymptotic", M, F_asymptotic(e, M), e, a, nan)
             ELSE IF lib = "converged"
             THEN Evaluated("secant", M, newton(e, M), e, a, nan)
             ELSE Evaluated("guess", M, F_guess(M), e, a, nan)

(***************************************************************************)
(* The ephemeris source: what one request can come back with               *)
(***************************************************************************)
Outcome(kind, lines) == [kind |-> kind, text |-> lines]

\* responses in the labeled-block layout (generate_trajectory.py asks for it)
LabeledNoSection == <<HdrA, PosA, VelA>>
LabeledZeroRows  == <<SOE, BadHeader, EOE>>
LabeledRows      == <<SOE, HdrA, PosA, VelA, HdrB, PosA, VelA, EOE>>

\* responses in the CSV layout (generate_atlas_trajectory.py asks for it)
CsvNoSection == <<RowA, RowB>>
CsvZeroRows  == <<SOE, Row7, EOE>>
CsvRows      == <<SOE, RowA, RowB, EOE>>

TransportFailures == {"timeout", "http_error", "no_result_field"}

LabeledOutcomes ==
    {Outcome(k, <<>>) : k \in TransportFailures}
        \cup {Outcome("response", t) : t \in {LabeledNoSection, LabeledZeroRows, LabeledRows}}

CsvOutcomes ==
    {Outcome(k, <<>>) : k \in TransportFailures}
        \cup {Outcome("response", t) : t \in {CsvNoSection, CsvZeroRows, CsvRows}}

(***************************************************************************)
(* fetch_horizons_data (generate_trajectory.py): one pass of its retry loop *)
(***************************************************************************)
MAX_RETRIES == 3
RETRY_DELAY == 2

RECURSIVE Pow2(_)
Pow2(n) == IF n <= 0 THEN 1 ELSE 2 * Pow2(n - 1)

\* a constant wait, whatever the attempt
wait_time_constant(attempt_no) == RETRY_DELAY

\* wait_time = RETRY_DELAY * (2 ** attempt)
wait_time(attempt_no) == RETRY_DELAY * Pow2(attempt_no)

\* a try block that takes a data section without records for a result
FetchTryEmptyIsSuccess(o) ==
    IF o.kind # "response" THEN [ok |-> FALSE, rows |-> <<>>, failure |-> o.kind]
    ELSE IF parse_horizons_vectors(o.text).raised # ""
    THEN [ok |-> FALSE, rows |-> <<>>, failure |-> "no_data_section"]
    ELSE [ok |-> TRUE, rows |-> parse_horizons_vectors(o.text).rows, failure |-> ""]

Fetched(rows)    == [ok |-> TRUE, rows |-> rows, failure |-> ""]
FetchFailed(how) == [ok |-> FALSE, rows |-> <<>>, failure |-> how]

\* the try block: the request, the parse, the check for an empty result
FetchTry(o) ==
    IF o.kind # "response" THEN FetchFailed(o.kind)
    ELSE IF parse_horizons_vectors(o.text).raised # "" THEN FetchFailed("no_data_section")
    ELSE IF parse_horizons_vectors(o.text).rows = <<>> THEN FetchFailed("zero_rows")
    ELSE Fetched(parse_horizons_vectors(o.text).rows)

(***************************************************************************)
(* HorizonsAPIClient.fetch_vectors (generate_atlas_trajectory.py)          *)
(***************************************************************************)
\* every exception is caught and answered with []
fetch_vectors(o) ==
    IF o.kind # "response" THEN <<>>
    ELSE _parse_vector_data(o.text).rows

\* why fetch_vectors came back empty
EmptyReason(o) ==
    IF o.kind # "response" THEN o.kind
    ELSE IF \A k \in 1..Len(o.text) : o.text[k] # SOE THEN "no_data_section"
    ELSE "zero_rows"

(***************************************************************************)
(* The builders and their body lists                                       *)
(***************************************************************************)
\* step: the sampling step of the body's fallback, in quarter days
Body(key, name, spk, step) == [key |-> key, name |-> name, spk |-> spk, step |-> step]

ATLAS_SPK_ID == "1004083"

\* OBJECTS of generate_trajectory.py
OBJECTS ==
    <<Body("atlas", "atlas", ATLAS_SPK_ID, 1),
      Body("earth", "earth", "399", 1),
      Body("mars", "mars", "499", 1),
      Body("jupiter", "jupiter", "599", 1)>>

\* the four fetches of generate_static_data, with their hours_step
StaticBodies ==
    <<Body("atlas", "atlas", ATLAS_SPK_ID, 1),
      Body("earth", "earth", "399", 4),
      Body("mars", "mars", "499", 4),
      Body("jupiter", "jupiter", "599", 8)>>

\* CONFIG["objects"] of update_all_planets.py: key is the lowercased name
\* without "/" and "-", step the hours worked out of "6h", "1d", "2d", "4d"
CONFIG_objects ==
    <<Body("3iatlas", "3i/atlas", ATLAS_SPK_ID, 1),
      Body("mercury", "mercury", "199", 4),
      Body("venus", "venus", "299", 4),
      Body("earth", "earth", "399", 4),
      Body("mars", "mars", "499", 4),
      Body("jupiter", "jupiter", "599", 8),
      Body("saturn", "saturn", "699", 8),
      Body("uranus", "uranus", "799", 16),
      Body("neptune", "neptune", "899", 16),
      Body("pluto", "pluto", "999", 16),
      Body("ceres", "ceres", "Ceres", 8),
      Body("vesta", "vesta", "20000004", 8),
      Body("pallas", "pallas", "20000002", 8)>>

CONFIG_use_fallback == TRUE

Entries == {"generate_trajectory_data", "generate_static_data", "update_all_planets"}

Bodies(e) ==
    IF e = "generate_trajectory_data" THEN OBJECTS
    ELSE IF e = "generate_static_data" THEN StaticBodies
    ELSE IF e = "update_all_planets" THEN CONFIG_objects
    ELSE <<>>

\* first day of the interval the builders ask for (2025-07-01)
StartDay == 0

\* a store that empties the other series when it is given an empty one
PutWipingOthers(map, key, series) ==
    [k \in DOMAIN map \cup {key} |->
        IF k = key \/ series = <<>> THEN series ELSE map[k]]

\* data[key] = series
Put(map, key, series) ==
    [k \in DOMAIN map \cup {key} |-> IF k = key THEN series ELSE map[k]]

Get(map, key) == IF key \in DOMAIN map THEN map[key] ELSE <<>>

\* every body handled as the planets are: no stand-in series
GtdFallbackApiOnly(body) == <<>>

\* generate_trajectory_data, lines 409-421: what stands in for a fetch that
\* returned None
GtdFallback(body) ==
    IF body.key = "atlas"
    THEN kepler_fallback_trajectory(StartDay, EndDay, 1)
    ELSE <<>>

\* generate_static_data, lines 494-536: what stands in for an empty fetch
StaticFallback(body) ==
    IF body.key = "atlas"
    THEN generate_fallback_trajectory(StartDay, EndDay, 1)
    ELSE generate_planet_orbit(body.name, StartDay, EndDay, body.step)

\* update_all_planets.main, lines 123-139
PlanetsFallback(body) ==
    IF ~CONFIG_use_fallback THEN <<>>
    ELSE IF body.spk = ATLAS_SPK_ID
    THEN generate_fallback_trajectory(StartDay, EndDay, 1)
    ELSE generate_planet_orbit(body.name, StartDay, EndDay, body.step)

\* MILESTONES: Discovery 2025-07-01, Mars Flyby 2025-10-03,
\* Perihelion 2025-10-29, Jupiter Approach 2026-03-16
MILESTONES ==
    <<[name |-> "Discovery", day |-> 0],
      [name |-> "Mars Flyby", day |-> 94],
      [name |-> "Perihelion", day |-> 120],
      [name |-> "Jupiter Approach", day |-> 258]>>

\* lines 432-441: the milestones that got a position
RECURSIVE milestones_with_positions(_, _)
milestones_with_positions(atlas_trajectory, milestones) ==
    IF milestones = <<>> THEN <<>>
    ELSE LET position == find_position_at_date(atlas_trajectory, Head(milestones).day)
             rest     == milestones_with_positions(atlas_trajectory, Tail(milestones))
         IN  IF position # None
             THEN <<[name |-> Head(milestones).name, day |-> Head(milestones).day,
                     position |-> position]>> \o rest
             ELSE rest

\* sum(len(data) for data in trajectory_data.values() if isinstance(data, list))
RECURSIVE TotalPoints(_, _)
TotalPoints(map, keys) ==
    IF keys = {} THEN 0
    ELSE LET k == CHOOSE x \in keys : TRUE
         IN  Len(map[k]) + TotalPoints(map, keys \ {k})

\* a run that reports failure as soon as one fetch failed
gtd_return_strict(total_points, ms, saved) ==
    IF total_points = 0 \/ failed # {}
    THEN Built(FALSE, ms, "no")
    ELSE Built(saved, ms, IF saved THEN "yes" ELSE "error")

\* lines 446-461: False when no point was generated or the write failed
gtd_return(total_points, ms, saved) ==
    IF total_points = 0
    THEN Built(FALSE, ms, "no")
    ELSE Built(saved, ms, IF saved THEN "yes" ELSE "error")

\* cache_age.days < 7
CACHE_TTL_DAYS == 7

\* the static file of an earlier run
CachedData ==
    [k \in {"atlas", "earth", "mars", "jupiter"} |-> _parse_vector_data(CsvRows).rows]

EmptyStaticData == [k \in {"atlas", "earth", "mars", "jupiter"} |-> <<>>]

\* the state of STATIC_FILE: missing, unreadable, or written age days ago
CacheStates ==
    {[state |-> "missing", age |-> 0], [state |-> "unreadable", age |-> 0]}
        \cup {[state |-> "readable", age |-> a] : a \in {0, 6, 7, 8}}

(***************************************************************************)
(* The parts of the state a specification does not use stay as they are    *)
(***************************************************************************)
ParseIdle ==
    /\ text = <<>>
    /\ parseOut = NotCalled

BuildIdle ==
    /\ entry = "none"
    /\ bodyIdx = 0
    /\ attempt = 0
    /\ waits = <<>>
    /\ data = <<>>
    /\ failed = {}
    /\ atlasFailure = ""
    /\ built = NotBuilt

FindIdle ==
    /\ findSeries = <<>>
    /\ findTarget = 0
    /\ found = NotCalled

OrbitIdle ==
    /\ solverIn = NoEvaluation
    /\ solverOut = NotCalled

\* no call of a generator asked for
NoGeneration == [gen |-> "none", planet |-> "", start |-> 0, end |-> 0, step |-> 0]

GenIdle ==
    /\ genIn = NoGeneration
    /\ genOut = NotCalled

\* no data file, no update run
NoFile == [exists |-> FALSE, series |-> <<>>, msKey |-> FALSE, milestones |-> <<>>]
NoUpdate ==
    [round |-> 0, status |-> "none", clock |-> 0, none |-> {}, before |-> NoFile,
     ok |-> FALSE, everHad |-> {}]

UpdIdle ==
    /\ stored = NoFile
    /\ lastUpdate = NoUpdate

CalcIdle == FindIdle /\ OrbitIdle /\ GenIdle /\ UpdIdle

MergeIdle ==
    /\ existing = <<>>
    /\ newData = <<>>
    /\ now = 0
    /\ merged = NotCalled
    /\ pruned = NotCalled
    /\ round = 0

(***************************************************************************)
(* Updates of one body's stored series (update_trajectory_data, the merge  *)
(* and prune of lines 147-153), over small series                          *)
(***************************************************************************)
\* a point of a series; v tells the fetch that produced it (v = 1: on file)
SeriesPoint(fmt, day, slot, v) ==
    DataPoint(JulianQ(day, slot), DateStr(fmt, day, slot), <<v, 0, 0>>, <<0, 0, 0>>,
              FALSE, IF fmt = "iso" THEN "kepler" ELSE "parsed")

SeriesDays  == {60, 61}
SeriesSlots == {0, 1}

PointPool(fmts, v) ==
    {SeriesPoint(f, d, sl, v) : f \in fmts, d \in SeriesDays, sl \in SeriesSlots}

\* the points of S in time order (the parsed point first at equal times)
TimeRank(p) == 2 * p.jd + (IF p.date.fmt = "iso" THEN 1 ELSE 0)

RECURSIVE InTimeOrder(_)
InTimeOrder(S) ==
    IF S = {} THEN <<>>
    ELSE LET first == CHOOSE p \in S : \A q \in S : TimeRank(p) <= TimeRank(q)
         IN  <<first>> \o InTimeOrder(S \ {first})

SmallSeries(pool) == {InTimeOrder(S) : S \in {T \in SUBSET pool : Cardinality(T) <= MaxPts}}

\* a long series: one calculated point per day, days 0 to 99
Daily100 == [d \in 1..100 |-> SeriesPoint("iso", d - 1, 0, 1)]

\* the file holds parsed and calculated points of earlier runs
FileSeries == SmallSeries(PointPool({"mon", "iso"}, 1))
\* one fetch gives parsed points, the Kepler fallback gives calculated ones
FetchedSeries == SmallSeries(PointPool({"mon"}, 2)) \cup SmallSeries(PointPool({"iso"}, 2))

\* datetime.now(): day 90 or 91, at 00:00, 06:00, 12:00 or 18:00
NowChoices == {4 * d + q : d \in {90, 91}, q \in 0..3}

\* a stored point without a 'date' key, or with an empty one
DatelessPoint ==
    DataPoint(JulianQ(60, 2), DateStr("none", 0, 0), <<1, 0, 0>>, <<0, 0, 0>>, FALSE, "parsed")

\* a file series with such a point behind a dated one
DatelessFile == <<SeriesPoint("mon", 60, 0, 1), DatelessPoint>>

MergeInit ==
    /\ ParseIdle
    /\ BuildIdle
    /\ CalcIdle
    /\ \/ existing \in FileSeries /\ newData \in FetchedSeries
       \/ existing = Daily100 /\ newData = <<>>
       \/ existing = DatelessFile /\ newData \in FetchedSeries
    /\ now \in NowChoices
    /\ merged = NotCalled
    /\ pruned = NotCalled
    /\ round = 0

\* merged_trajectory = merge_trajectory_data(existing_trajectory, new_data)
CallMerge ==
    /\ merged = NotCalled
    /\ merged' = merge_trajectory_data(existing, newData)
    /\ UNCHANGED <<existing, newData, now, pruned, round, parseVars, buildVars, calcVars>>

\* merged_trajectory = prune_old_data(merged_trajectory, datetime.now())
CallPrune ==
    /\ merged # NotCalled
    /\ merged.raised = ""
    /\ pruned = NotCalled
    /\ pruned' = Returned(prune_old_data(merged.rows, now))
    /\ UNCHANGED <<existing, newData, now, merged, round, parseVars, buildVars, calcVars>>

\* updated_data[name] = merged_trajectory is saved; the next run loads it,
\* fetches again and reads the clock again
StoreAndFetch ==
    /\ pruned # NotCalled
    /\ round < MaxRounds
    /\ existing' = pruned.rows
    /\ round' = round + 1
    /\ \E nd \in FetchedSeries, n \in NowChoices :
          /\ n >= now
          /\ newData' = nd
          /\ now' = n
    /\ merged' = NotCalled
    /\ pruned' = NotCalled
    /\ UNCHANGED <<parseVars, buildVars, calcVars>>

MergeNext ==
    \/ CallMerge
    \/ CallPrune
    \/ StoreAndFetch

SpecMerge == MergeInit /\ [][MergeNext]_vars

(***************************************************************************)
(* Claims about merge and prune                                            *)
(***************************************************************************)
MergeReturned == merged # NotCalled /\ merged.raised = ""

StrictlyIncreasingJd(series) ==
    \A k \in 1..(Len(series) - 1) : series[k].jd < series[k + 1].jd

NoDuplicateDateKeys(series) ==
    \A j, k \in 1..Len(series) :
        (j # k) => <<series[j].date.fmt, series[j].date.day>>
                     # <<series[k].date.fmt, series[k].date.day>>

\* C3: every series a merge returns, and every series an update stores, is
\* strictly increasing in Julian Date and holds no two points of the same
\* calendar-date key, also when the existing or the new series is empty.
C3_MergedSeriesStrictlyOrdered ==
    /\ MergeReturned =>
          StrictlyIncreasingJd(merged.rows) /\ NoDuplicateDateKeys(merged.rows)
    /\ round > 0 =>
          StrictlyIncreasingJd(existing) /\ NoDuplicateDateKeys(existing)

KeyOfPoint(p) == <<p.date.fmt, p.date.day>>
KeysOf(series) == {KeyOfPoint(series[k]) : k \in 1..Len(series)}
PlacesOfKey(series, key) == {k \in 1..Len(series) : KeyOfPoint(series[k]) = key}
Max(S) == CHOOSE m \in S : \A n \in S : m >= n

\* C4: merge keys the points by the date part of their date; for every key
\* of either input the result holds exactly one point, the last point of new
\* with that key if there is one and else the point of existing; the result
\* is in ascending Julian Date order.
C4_MergeOnePointPerDateKey ==
    MergeReturned =>
        /\ KeysOf(merged.rows) = KeysOf(existing) \cup KeysOf(newData)
        /\ \A key \in KeysOf(existing) \cup KeysOf(newData) :
              /\ Cardinality(PlacesOfKey(merged.rows, key)) = 1
              /\ LET kept == merged.rows[Min(PlacesOfKey(merged.rows, key))]
                 IN  IF key \in KeysOf(newData)
                     THEN kept = newData[Max(PlacesOfKey(newData, key))]
                     ELSE \E k \in PlacesOfKey(existing, key) : kept = existing[k]
        /\ \A k \in 1..(Len(merged.rows) - 1) :
              merged.rows[k].jd <= merged.rows[k + 1].jd

\* C5: prune keeps every point dated on or after the day 30 days before now
\* and drops every earlier point, whatever the time of day of now; one point
\* a day over 100 days, pruned on day 90, leaves the points of day 60 and later.
C5_PruneKeepsThirtyDaysBack ==
    pruned # NotCalled =>
        /\ \A k \in 1..Len(merged.rows) :
              merged.rows[k].date.fmt = "iso" =>
                  ((\E j \in 1..Len(pruned.rows) : pruned.rows[j] = merged.rows[k])
                      <=> merged.rows[k].date.day >= (now \div 4) - 30)
        /\ (merged.rows = Daily100 /\ now \div 4 = 90) =>
              pruned.rows = SubSeq(Daily100, 61, 100)

(***************************************************************************)
(* The parsers applied to a response of up to MaxLines lines               *)
(***************************************************************************)
LabeledAlphabet == {SOE, EOE, Blank, HdrA, HdrB, BadHeader, PosA, VelA}
CsvAlphabet     == {SOE, EOE, Blank, RowA, RowB, Row7, RowBad, NoComma}

ParseInit ==
    /\ ParseIdle
    /\ MergeIdle
    /\ BuildIdle
    /\ CalcIdle

ReceiveLabeledLine(l) ==
    /\ parseOut = NotCalled
    /\ Len(text) < MaxLines
    /\ text' = Append(text, l)
    /\ UNCHANGED <<parseOut, mergeVars, buildVars, calcVars>>

ReceiveCsvLine(l) ==
    /\ parseOut = NotCalled
    /\ Len(text) < MaxLines
    /\ text' = Append(text, l)
    /\ UNCHANGED <<parseOut, mergeVars, buildVars, calcVars>>

ParseLabeled ==
    /\ parseOut = NotCalled
    /\ parseOut' = parse_horizons_vectors(text)
    /\ UNCHANGED <<text, mergeVars, buildVars, calcVars>>

ParseCsv ==
    /\ parseOut = NotCalled
    /\ parseOut' = _parse_vector_data(text)
    /\ UNCHANGED <<text, mergeVars, buildVars, calcVars>>

LabeledNext ==
    \/ \E l \in LabeledAlphabet : ReceiveLabeledLine(l)
    \/ ParseLabeled

CsvNext ==
    \/ \E l \in CsvAlphabet : ReceiveCsvLine(l)
    \/ ParseCsv

SpecLabeled == ParseInit /\ [][LabeledNext]_vars
SpecCSV     == ParseInit /\ [][CsvNext]_vars

(***************************************************************************)
(* Claims about the parsers                                                *)
(***************************************************************************)
Called == parseOut # NotCalled

HasStartMarker == \E k \in 1..Len(text) : text[k] = SOE

\* C6: every parser fails with a parse error on a text without start marker
\* ($$SOE); it never returns a sequence, empty or not, for such a text.
C6_NoMarkerRaises ==
    (Called /\ ~HasStartMarker) => parseOut.raised # ""

\* lines after the first start marker and before the first end marker
InBlock(k) ==
    /\ \E s \in 1..(k - 1) : text[s] = SOE
    /\ \A e \in 1..k : text[e] # EOE
    /\ text[k] # SOE

IsGoodHeader(l)   == l.kind = "header" /\ l.jdOk
IsPositionLine(l) ==
    l.kind = "labels" /\ [k \in 1..Len(l.labels) |-> l.labels[k].label] = <<"X", "Y", "Z">>
IsVelocityLine(l) ==
    l.kind = "labels" /\ [k \in 1..Len(l.labels) |-> l.labels[k].label] = <<"VX", "VY", "VZ">>

\* the well-formed three-line records of the text: where they start
WellFormedRecords ==
    {k \in 1..(Len(text) - 2) :
        /\ InBlock(k) /\ InBlock(k + 1) /\ InBlock(k + 2)
        /\ IsGoodHeader(text[k])
        /\ IsPositionLine(text[k + 1])
        /\ IsVelocityLine(text[k + 2])}

IsValidCsvRow(l) ==
    /\ l.kind = "csv"
    /\ Len(l.fields) >= 8
    /\ \A k \in {1, 3, 4, 5, 6, 7, 8} : l.fields[k].kind = "number"

ValidCsvRows == {k \in 1..Len(text) : InBlock(k) /\ IsValidCsvRow(text[k])}

\* C7: whenever the start marker is found the parser returns a sequence and
\* does not raise, and the sequence is empty when no row or record is valid.
C7_MarkerFoundReturns ==
    (Called /\ HasStartMarker) =>
        /\ parseOut.raised = ""
        /\ (WellFormedRecords = {} /\ ValidCsvRows = {}) => parseOut.rows = <<>>

\* C8: the labeled-block parser emits as many records as the block holds
\* well-formed three-line records; a record that lacks its position or its
\* velocity line is dropped without taking a sibling with it.
C8_MalformedRecordDroppedAlone ==
    (Called /\ parseOut.raised = "") =>
        Len(parseOut.rows) = Cardinality(WellFormedRecords)

\* the k-th smallest element of a finite set of integers
RECURSIVE KthSmallest(_, _)
KthSmallest(S, k) == IF k = 1 THEN Min(S) ELSE KthSmallest(S \ {Min(S)}, k - 1)

RowRecord(l) ==
    [jd |-> l.fields[1].val,
     date |-> [fmt |-> "mon", day |-> l.fields[2].val \div 4, slot |-> l.fields[2].val % 4],
     position |-> <<l.fields[3].val, l.fields[4].val, l.fields[5].val>>,
     velocity |-> <<l.fields[6].val, l.fields[7].val, l.fields[8].val>>,
     calculated |-> FALSE, gen |-> "parsed"]

\* C9: the CSV parser emits exactly one record, in input order, for each line
\* between the markers that has a comma, at least 8 fields and numeric JD and
\* vector fields; every other line contributes nothing and stops nothing.
C9_CsvOneRecordPerValidRow ==
    Called =>
        /\ parseOut.raised = ""
        /\ Len(parseOut.rows) = Cardinality(ValidCsvRows)
        /\ \A j \in 1..Len(parseOut.rows) :
              parseOut.rows[j] = RowRecord(text[KthSmallest(ValidCsvRows, j)])

\* three valid rows and a 7-field row between the markers gave three records
C9_Witness ==
    /\ Called
    /\ Cardinality(ValidCsvRows) = 3
    /\ \E k \in 1..Len(text) : InBlock(k) /\ text[k] = Row7
    /\ text[Len(text)] = EOE
    /\ Len(parseOut.rows) = 3

\* one record, written with the example's position and velocity lines, is all
\* there is between the first start marker (at line k) and the end marker
ExampleRecordAt(k) ==
    /\ k + 4 <= Len(text)
    /\ text[k] = SOE
    /\ \A s \in 1..(k - 1) : text[s] # SOE
    /\ IsGoodHeader(text[k + 1])
    /\ text[k + 2] = PosA
    /\ text[k + 3] = VelA
    /\ text[k + 4] = EOE

\* C10 as claimed: position is the triple (X, Y, Z) and velocity the triple
\* (VX, VY, VZ) in the order and with the signs written in the text; the
\* example record gives (0.16, -1.0, 0.000058) and (0.016, 0.0026, 0.00000036).
C10_VectorsAsWritten ==
    \A k \in 1..Len(text) :
        (Called /\ ExampleRecordAt(k)) =>
            /\ Len(parseOut.rows) = 1
            /\ parseOut.rows[1].position = <<16000000, 0 - 100000000, 5800>>
            /\ parseOut.rows[1].velocity = <<1600000, 260000, 36>>

\* C10 amended: the parser returns position (X, Z, -Y) and velocity
\* (VX, VZ, -VY); the example record gives position (0.16, 0.000058, 1.0) and
\* velocity (0.016, 0.00000036, -0.0026), with the JD and date of its header.
C10_VectorsInThreeJsFrame ==
    \A k \in 1..Len(text) :
        (Called /\ ExampleRecordAt(k)) =>
            /\ Len(parseOut.rows) = 1
            /\ parseOut.rows[1].jd = 4 * text[k + 1].day + text[k + 1].slot
            /\ parseOut.rows[1].date.day = text[k + 1].day
            /\ parseOut.rows[1].date.slot = text[k + 1].slot
            /\ parseOut.rows[1].position = <<16000000, 5800, 100000000>>
            /\ parseOut.rows[1].velocity = <<1600000, 36, 0 - 260000>>

C10_Witness ==
    /\ Called
    /\ ExampleRecordAt(1)
    /\ text[2] = HdrA
    /\ Len(parseOut.rows) = 1


(***************************************************************************)
(* The builders: one run of an entry point over its body list              *)
(***************************************************************************)
BuildInit ==
    /\ ParseIdle
    /\ MergeIdle
    /\ CalcIdle
    /\ entry \in Entries
    /\ bodyIdx = IF entry = "generate_static_data" THEN 0 ELSE 1
    /\ attempt = 0
    /\ waits = <<>>
    /\ data = <<>>
    /\ failed = {}
    /\ atlasFailure = ""
    /\ built = NotBuilt

Running == built.status = "running"

CurrentBody == Bodies(entry)[bodyIdx]

InLoop == Running /\ bodyIdx \in 1..Len(Bodies(entry))

IsAtlas(body) == body.spk = ATLAS_SPK_ID

\* a cache check that does not look at force_api
CheckCacheIgnoringForce(force_api, cache) ==
    /\ entry = "generate_static_data"
    /\ Running
    /\ bodyIdx = 0
    /\ IF cache.state = "readable" /\ cache.age < CACHE_TTL_DAYS
       THEN /\ data' = CachedData
            /\ built' = Built(TRUE, <<>>, "no")
            /\ bodyIdx' = Len(StaticBodies) + 1
       ELSE /\ data' = EmptyStaticData
            /\ built' = built
            /\ bodyIdx' = 1
    /\ UNCHANGED <<entry, attempt, waits, failed, atlasFailure, parseVars, mergeVars, calcVars>>

\* generate_static_data up to the first fetch: the 7-day cache
CheckCache(force_api, cache) ==
    /\ entry = "generate_static_data"
    /\ Running
    /\ bodyIdx = 0
    /\ IF ~force_api /\ cache.state = "readable" /\ cache.age < CACHE_TTL_DAYS
       THEN /\ data' = CachedData
            /\ built' = Built(TRUE, <<>>, "no")
            /\ bodyIdx' = Len(StaticBodies) + 1
       ELSE /\ data' = EmptyStaticData
            /\ built' = built
            /\ bodyIdx' = 1
    /\ UNCHANGED <<entry, attempt, waits, failed, atlasFailure, parseVars, mergeVars, calcVars>>

\* generate_trajectory_data: one pass of fetch_horizons_data's retry loop for
\* the current body; the pass that ends the fetch also stores the body's data
Attempt(o) ==
    /\ entry = "generate_trajectory_data"
    /\ InLoop
    /\ LET r     == FetchTry(o)
           body  == CurrentBody
           slept == IF attempt = 0 THEN <<>> ELSE waits
       IN  IF r.ok
           THEN /\ data' = Put(data, body.key, r.rows)
                /\ bodyIdx' = bodyIdx + 1
                /\ attempt' = 0
                /\ waits' = slept
                /\ UNCHANGED <<failed, atlasFailure>>
           ELSE IF attempt < MAX_RETRIES - 1
           THEN /\ attempt' = attempt + 1
                /\ waits' = Append(slept, wait_time(attempt))
                /\ UNCHANGED <<data, bodyIdx, failed, atlasFailure>>
           ELSE /\ data' = Put(data, body.key, GtdFallback(body))
                /\ failed' = failed \cup {body.key}
                /\ atlasFailure' = IF IsAtlas(body) THEN r.failure ELSE atlasFailure
                /\ bodyIdx' = bodyIdx + 1
                /\ attempt' = 0
                /\ waits' = slept
    /\ UNCHANGED <<entry, built, parseVars, mergeVars, calcVars>>

\* generate_static_data and update_all_planets.main: the single request for
\* the current body, the fallback when it came back empty, the store
FetchOnce(o) ==
    /\ entry \in {"generate_static_data", "update_all_planets"}
    /\ InLoop
    /\ LET vectors == fetch_vectors(o)
           body    == CurrentBody
       IN  IF vectors # <<>>
           THEN /\ data' = Put(data, body.key, vectors)
                /\ UNCHANGED <<failed, atlasFailure>>
           ELSE /\ data' = Put(data, body.key,
                               IF entry = "generate_static_data"
                               THEN StaticFallback(body)
                               ELSE PlanetsFallback(body))
                /\ failed' = failed \cup {body.key}
                /\ atlasFailure' = IF IsAtlas(body) THEN EmptyReason(o) ELSE atlasFailure
    /\ bodyIdx' = bodyIdx + 1
    /\ UNCHANGED <<entry, attempt, waits, built, parseVars, mergeVars, calcVars>>

\* after the last body: milestones and the point count of
\* generate_trajectory_data, then the write of the output file
Finish(saved) ==
    /\ Running
    /\ bodyIdx = Len(Bodies(entry)) + 1
    /\ IF entry = "generate_trajectory_data"
       THEN LET ms    == milestones_with_positions(Get(data, "atlas"), MILESTONES)
                total == TotalPoints(data, DOMAIN data) + Len(ms)
            IN  built' = gtd_return(total, ms, saved)
       ELSE built' = Built(saved, <<>>, IF saved THEN "yes" ELSE "error")
    /\ UNCHANGED <<entry, bodyIdx, attempt, waits, data, failed, atlasFailure,
                   parseVars, mergeVars, calcVars>>

Next ==
    \/ \E force_api \in BOOLEAN, cache \in CacheStates : CheckCache(force_api, cache)
    \/ \E o \in LabeledOutcomes : Attempt(o)
    \/ \E o \in CsvOutcomes : FetchOnce(o)
    \/ \E saved \in BOOLEAN : Finish(saved)

Spec == BuildInit /\ [][Next]_vars

(***************************************************************************)
(* The builders: fallbacks                                                 *)
(***************************************************************************)
\* the bodies the run is through with
Processed == {Bodies(entry)[k].key : k \in {j \in 1..Len(Bodies(entry)) : j < bodyIdx}}

AtlasKey == IF entry = "update_all_planets" THEN "3iatlas" ELSE "atlas"

AllOfKind(series, gen) == \A k \in 1..Len(series) : series[k].gen = gen

\* C1: in every entry point, a planet whose request failed gets the
\* circular-orbit approximation as its series.
C1_PlanetsFallBackToCircularOrbit ==
    \A key \in (Processed \cap failed) \ {AtlasKey} :
        /\ data[key] # <<>>
        /\ AllOfKind(data[key], "circular")

\* C2: whichever way the request for the interstellar object failed, its
\* series ends up being the calculated hyperbolic one: non-empty, one point
\* per step over the requested interval, made by a hyperbolic solver.
C2_InterstellarObjectEndsInHyperbolicFallback ==
    (AtlasKey \in Processed \cap failed) =>
        /\ atlasFailure \in TransportFailures \cup {"no_data_section", "zero_rows"}
        /\ Len(data[AtlasKey]) = 4 * (EndDay - StartDay) + 1
        /\ \A k \in 1..Len(data[AtlasKey]) :
              /\ data[AtlasKey][k].gen \in {"kepler", "hyperbolic"}
              /\ data[AtlasKey][k].date = IsoDate(4 * StartDay + k - 1)

\* a run of generate_trajectory_data whose three requests for the object all
\* came back with a data section holding no record
C2_Witness ==
    /\ entry = "generate_trajectory_data"
    /\ "atlas" \in failed
    /\ atlasFailure = "zero_rows"
    /\ Len(data["atlas"]) = 4 * (EndDay - StartDay) + 1
    /\ AllOfKind(data["atlas"], "kepler")


(***************************************************************************)
(* The builders: what generate_trajectory_data reports                     *)
(***************************************************************************)
GtdReturned == entry = "generate_trajectory_data" /\ built.status = "returned"

\* C11 as claimed: generate_trajectory_data reports failure only when the
\* series of the interstellar object is empty.
C11_FailureOnlyWhenObjectSeriesEmpty ==
    (GtdReturned /\ ~built.ok) => Get(data, "atlas") = <<>>

\* C11: generate_trajectory_data reports failure only when the output file
\* could not be written, never because of failed or empty fetches: the
\* series of the interstellar object is never empty, every body has a series
\* (possibly empty for a planet), and a written file is reported as success.
C11_FailureOnlyWhenWriteFails ==
    GtdReturned =>
        /\ ~built.ok => built.written = "error"
        /\ built.written = "yes" => built.ok
        /\ Get(data, "atlas") # <<>>
        /\ DOMAIN data = {"atlas", "earth", "mars", "jupiter"}

\* a run in which every fetch failed, the three planets are empty, and the
\* build reports success
C11_Witness ==
    /\ GtdReturned
    /\ built.ok
    /\ failed = {"atlas", "earth", "mars", "jupiter"}
    /\ data["earth"] = <<>> /\ data["mars"] = <<>> /\ data["jupiter"] = <<>>

(***************************************************************************)
(* fetch_horizons_data: the retry policy                                   *)
(***************************************************************************)
GaveUp == failed' # failed

\* C12: the fetch makes at most MAX_RETRIES requests; the wait after the k-th
\* failed attempt (k = 1, 2) is RETRY_DELAY * 2^(k-1) seconds, 2 s then 4 s;
\* no wait follows the last failed attempt.
C12_BackoffUnderAttemptCap ==
    [][entry = "generate_trajectory_data" =>
          /\ attempt \in 0..(MAX_RETRIES - 1)
          /\ attempt' \in 0..(MAX_RETRIES - 1)
          /\ attempt' > 0 =>
                /\ attempt' = attempt + 1
                /\ Len(waits') = attempt'
                /\ waits'[attempt'] = RETRY_DELAY * Pow2(attempt' - 1)
                /\ \A k \in 1..attempt' : waits'[k] = IF k = 1 THEN 2 ELSE 4
          /\ GaveUp =>
                /\ attempt = MAX_RETRIES - 1
                /\ waits = <<2, 4>>
                /\ waits' = waits
    ]_vars

\* a fetch that gave up after its third request, having slept 2 s and 4 s
C12_Witness ==
    /\ entry = "generate_trajectory_data"
    /\ failed # {}
    /\ attempt = 0
    /\ waits = <<2, 4>>


(***************************************************************************)
(* find_position_at_date on small series                                   *)
(***************************************************************************)
MaxFind == 3

FindDays == {1, 3, 5}

\* a target between two days of the series, and the last milestone's day
FindTargets == {3, 4, 258}

\* what a point of the series can be dated with; the point at place k of a
\* series has position <<k, 0, 0>>
FindDates ==
    {DateStr(f, d, q) : f \in {"iso", "mon"}, d \in FindDays, q \in {0, 2}}
        \cup {DateStr("none", 0, 0)}

FindPoint(date, k) ==
    DataPoint(JulianQ(date.day, date.slot), date, <<k, 0, 0>>, NoVector, FALSE, "series")

FindInputs ==
    UNION {{[k \in 1..n |-> FindPoint(ds[k], k)] : ds \in [1..n -> FindDates]} : n \in 0..MaxFind}

FindInit ==
    /\ ParseIdle
    /\ MergeIdle
    /\ BuildIdle
    /\ OrbitIdle
    /\ GenIdle
    /\ UpdIdle
    /\ findSeries \in FindInputs
    /\ findTarget \in FindTargets
    /\ found = NotCalled

CallFind ==
    /\ found = NotCalled
    /\ found' = Returned(find_position_at_date(findSeries, findTarget))
    /\ UNCHANGED <<findSeries, findTarget, orbitVars, genVars, updVars, parseVars, mergeVars,
                   buildVars>>

FindNext == CallFind

SpecFind == FindInit /\ [][FindNext]_vars

FindCalled == found.raised = ""

\* the places of the series whose date is written as an ISO calendar date
IsoPlaces == {k \in 1..Len(findSeries) : findSeries[k].date.fmt = "iso"}

DayDistance(k) == Abs(findSeries[k].date.day - findTarget)

ClosestPlaces == {k \in IsoPlaces : \A j \in IsoPlaces : DayDistance(k) <= DayDistance(j)}

C14_NotFoundAndSinglePoint ==
    FindCalled =>
        /\ IsoPlaces = {} => found.rows = None
        /\ (Len(findSeries) = 1 /\ IsoPlaces = {1}) => found.rows = <<1, 0, 0>>
        /\ found.rows = None => IsoPlaces = {}

\* a single point dated day 1 returned for the target day 258
C14_Witness ==
    /\ FindCalled
    /\ Len(findSeries) = 1
    /\ findSeries[1].date = DateStr("iso", 1, 0)
    /\ findTarget = 258
    /\ found.rows = <<1, 0, 0>>


(***************************************************************************)
(* The builders: where a point comes from                                  *)
(***************************************************************************)
\* A point's calculated field is TRUE when the point carries the key
\* 'calculated': True and FALSE when it carries no such key; its gen field
\* names the code that made it.
\* C15: every point of every produced series tells observed from calculated:
\* a point made by a fallback generator (hyperbolic or circular, of either
\* script) is tagged calculated, a point made by a parser is not.
C15_EveryPointTagged ==
    \A key \in DOMAIN data :
        \A k \in 1..Len(data[key]) :
            /\ data[key][k].gen \in {"kepler", "hyperbolic", "circular"} => data[key][k].calculated
            /\ data[key][k].gen = "parsed" => ~data[key][k].calculated


(***************************************************************************)
(* The hyperbolic propagators on single epochs                             *)
(***************************************************************************)
\* eccentricities tried besides the configured one: 0.5, 1, 1.5, 3
OrbitEccentricities == {5000, 10000, 15000, 30000}

\* days from perihelion: the perihelion, midnight of the perihelion day of
\* calculate_position, and epochs up to 85 days before and after
OrbitDays == {0, 4814, 150000, 450000, 754814, 850000}

\* days from perihelion beyond |M| = 50, for kepler_fallback_trajectory
FarDays == {4000000}

Mirrored(S) == S \cup {0 - t : t \in S}

Evaluation(script, e, t, lib) == [script |-> script, e |-> e, t |-> t, lib |-> lib]

OrbitInputs ==
    {Evaluation("calculate_position", e, t, "") :
        e \in OrbitEccentricities \cup {AtlasEccentricity}, t \in Mirrored(OrbitDays)}
    \cup
    {Evaluation("kepler_fallback_trajectory", e, t, lib) :
        e \in OrbitEccentricities \cup {KeplerEccentricity},
        t \in Mirrored(OrbitDays \cup FarDays),
        lib \in {"converged", "raised"}}

OrbitInit ==
    /\ ParseIdle
    /\ MergeIdle
    /\ BuildIdle
    /\ FindIdle
    /\ GenIdle
    /\ UpdIdle
    /\ solverIn \in OrbitInputs
    /\ solverOut = NotCalled

\* what the script of an evaluation computes for it
Solve(in) ==
    IF in.script = "calculate_position"
    THEN calculate_position_solve(in.e, AtlasPerihelionAu, in.t)
    ELSE kepler_fallback_solve(in.e, KeplerPerihelionAu, in.t, in.lib)

\* generate_fallback_trajectory appends what calculate_position returns
EvaluateAtlas ==
    /\ solverIn.script = "calculate_position"
    /\ solverOut = NotCalled
    /\ solverOut' = Solve(solverIn)
    /\ UNCHANGED <<solverIn, findVars, genVars, updVars, parseVars, mergeVars, buildVars>>

\* kepler_fallback_trajectory appends the point of every pass of its loop
EvaluateKepler ==
    /\ solverIn.script = "kepler_fallback_trajectory"
    /\ solverOut = NotCalled
    /\ solverOut' = Solve(solverIn)
    /\ UNCHANGED <<solverIn, findVars, genVars, updVars, parseVars, mergeVars, buildVars>>

OrbitNext == EvaluateAtlas \/ EvaluateKepler

SpecOrbit == OrbitInit /\ [][OrbitNext]_vars

\* ------------------------------------------------------------------
\* Claims about the two-body propagators
\* ------------------------------------------------------------------

\* a residual of the Kepler equation no larger than a hundredth
ResidualTol == FP \div 100

\* the rounding of the four-decimal arithmetic in a heliocentric distance
RadiusTol == FP \div 1000

\* the evaluation produced a point that the script appends to its series
PointEmitted ==
    /\ solverOut # NotCalled
    /\ solverOut.raised = ""

\* the point is an ordinary state vector: emitted, with numbers in it
OrdinaryPoint ==
    /\ PointEmitted
    /\ ~solverOut.nan

Hyperbolic == solverIn.e > FP

PerihelionAu ==
    IF solverIn.script = "calculate_position"
    THEN AtlasPerihelionAu
    ELSE KeplerPerihelionAu

\* the evaluation of the same script and elements at the mirrored time
MirroredEvaluation == Solve([solverIn EXCEPT !.t = 0 - solverIn.t])

\* C16: a point of a hyperbolic orbit is emitted only with an eccentric
\* anomaly that solves the Kepler equation: never the initial guess taken
\* because the solver did not converge, never one with a residual left.
C16_UnconvergedPointNeverEmitted ==
    (OrdinaryPoint /\ Hyperbolic) =>
        /\ solverOut.how # "guess"
        /\ Abs(solverOut.residual) <= ResidualTol

\* C17: at the perihelion passage (t = 0) the mean and the eccentric
\* anomaly are zero and the heliocentric distance is the perihelion
\* distance q, for every eccentricity above one.
C17_PerihelionDistanceIsQ ==
    (OrdinaryPoint /\ Hyperbolic /\ solverIn.t = 0) =>
        /\ solverOut.M = 0
        /\ solverOut.F = 0
        /\ Abs(solverOut.r - PerihelionAu) <= RadiusTol

C17_Witness ==
    /\ OrdinaryPoint
    /\ solverIn.t = 0
    /\ solverIn.e \in {AtlasEccentricity, 15000}
    /\ solverOut.how = "newton"
    /\ Abs(solverOut.r - AtlasPerihelionAu) <= RadiusTol

\* C18: the heliocentric distance is the same the same time before and
\* after the perihelion passage.
C18_DistanceSymmetricAboutPerihelion ==
    (OrdinaryPoint /\ Hyperbolic) =>
        solverOut.r = MirroredEvaluation.r

C18_Witness ==
    /\ OrdinaryPoint
    /\ Hyperbolic
    /\ solverIn.t < 0
    /\ solverOut.r = MirroredEvaluation.r
    /\ solverOut.F = 0 - MirroredEvaluation.F
    /\ solverOut.r > PerihelionAu + RadiusTol

\* C19: with an eccentricity of one or less the evaluation never yields
\* an ordinary state vector: it raises, or its numbers are not numbers.
C19_NoOrdinaryPointUnlessHyperbolic ==
    (solverOut # NotCalled /\ ~Hyperbolic) => ~OrdinaryPoint

C19_Witness ==
    /\ solverOut # NotCalled
    /\ solverIn.e < FP
    /\ solverIn.script = "kepler_fallback_trajectory"
    /\ PointEmitted
    /\ solverOut.nan

\* the days from the perihelion passage of 2025-07-01 and of 2026-03-31
FirstEpochDay == 0 - 1204814
LastEpochDay == 1525186

\* C20: for every epoch from 2025-07-01 to 2026-03-31, with the configured
\* elements, the ten Newton iterations started at F = M leave a residual
\* of the Kepler equation that is negligible.
C20_TenIterationsConverge ==
    ( /\ OrdinaryPoint
      /\ solverIn.script = "calculate_position"
      /\ solverIn.e = AtlasEccentricity
      /\ solverIn.t >= FirstEpochDay
      /\ solverIn.t <= LastEpochDay ) =>
        Abs(solverOut.residual) <= ResidualTol

(***************************************************************************)
(* The builders: one body's result and the others                          *)
(***************************************************************************)
\* the only response with records, as the entry point's parser reads it
FetchedRows(e) ==
    IF e = "generate_trajectory_data"
    THEN FetchTry(Outcome("response", LabeledRows)).rows
    ELSE fetch_vectors(Outcome("response", CsvRows))

\* what stands in for a failed fetch of the body
FallbackOf(e, body) ==
    IF e = "generate_trajectory_data" THEN GtdFallback(body)
    ELSE IF e = "generate_static_data" THEN StaticFallback(body)
    ELSE PlanetsFallback(body)

\* the series of a body as its own fetch outcome alone determines it
OwnResult(e, body, fetch_failed) ==
    IF fetch_failed THEN FallbackOf(e, body) ELSE FetchedRows(e)

BodyOfKey(e, key) ==
    Bodies(e)[CHOOSE k \in 1..Len(Bodies(e)) : Bodies(e)[k].key = key]

YieldsPoints(o) ==
    /\ o.kind = "response"
    /\ parse_horizons_vectors(o.text).raised = ""
    /\ parse_horizons_vectors(o.text).rows # <<>>

\* the fetch of the current body ends with this pass
FetchEnds == bodyIdx' = bodyIdx + 1

\* the caller saw None (it took its "data is None" branch)
ReturnedNone == CurrentBody.key \in failed'

\* C22: fetch_horizons_data returns the parsed points of the first attempt
\* that yields at least one, making no further request; an attempt without
\* points, a data section with zero records included, is a failed one; None
\* is returned after exactly MAX_RETRIES failed attempts and not before; an
\* empty list is never returned.
C22_FirstSuccessOrNoneAfterAllRetries ==
    [][\A o \in LabeledOutcomes :
          Attempt(o) =>
              IF YieldsPoints(o)
              THEN /\ FetchEnds
                   /\ ~ReturnedNone
                   /\ data'[CurrentBody.key] = parse_horizons_vectors(o.text).rows
                   /\ data'[CurrentBody.key] # <<>>
              ELSE IF attempt + 1 = MAX_RETRIES
              THEN /\ FetchEnds
                   /\ ReturnedNone
              ELSE /\ ~FetchEnds
                   /\ attempt' = attempt + 1
                   /\ failed' = failed
                   /\ data' = data
    ]_vars

\* the object's fetch succeeded at its second request, after one wait, and
\* the next body's fetch gave up after three requests, the last of which
\* came back with a data section and no record
C22_Witness ==
    /\ entry = "generate_trajectory_data"
    /\ bodyIdx = 3
    /\ failed = {"earth"}
    /\ atlasFailure = ""
    /\ data["atlas"] = parse_horizons_vectors(LabeledRows).rows
    /\ waits = <<2, 4>>

(***************************************************************************)
(* The fallback generators on single calls                                 *)
(***************************************************************************)
\* last day an interval near the configured one starts or ends on
MaxGenDay == 3

\* a day more than fifteen years after the perihelion (2041-12-04)
FarDay == 6000

\* steps in quarter days: 6 h to 2 d
GenSteps == {1, 2, 3, 4, 5, 8}

GenIntervals ==
    {<<s, e>> : s \in 0..MaxGenDay, e \in 0..MaxGenDay}
        \cup {<<FarDay, FarDay>>, <<FarDay, FarDay + 1>>, <<FarDay + 1, FarDay>>}

Generation(gen, planet, iv, step) ==
    [gen |-> gen, planet |-> planet, start |-> iv[1], end |-> iv[2], step |-> step]

GenInputs ==
    {Generation(g, "", iv, st) :
        g \in {"kepler_fallback_trajectory", "generate_fallback_trajectory"},
        iv \in GenIntervals, st \in GenSteps}
        \cup {Generation("generate_planet_orbit", p, iv, st) :
                p \in PlanetParams \cup {"pluto"}, iv \in GenIntervals, st \in GenSteps}

\* an epoch in quarter days from 2025-07-01 as the days from the perihelion
\* that calculate_position works with
SincePerihelion(t) == (FP \div 4) * t - AtlasPerihelionDay

\* calculate_position raises for the epoch
calculate_position_raises(t) ==
    sinh_overflows(MeanAnomaly(MeanMotion(Div(AtlasPerihelionAu, FP - AtlasEccentricity)),
                               SincePerihelion(t)))

\* the loop of generate_fallback_trajectory comes to an epoch for which
\* calculate_position raises; nothing catches it
RECURSIVE fallback_loop_raises(_, _, _)
fallback_loop_raises(current, end, delta) ==
    IF current <= end
    THEN calculate_position_raises(current) \/ fallback_loop_raises(current + delta, end, delta)
    ELSE FALSE

GenInit ==
    /\ ParseIdle
    /\ MergeIdle
    /\ BuildIdle
    /\ FindIdle
    /\ OrbitIdle
    /\ UpdIdle
    /\ genIn \in GenInputs
    /\ genOut = NotCalled

CallKepler ==
    /\ genIn.gen = "kepler_fallback_trajectory"
    /\ genOut = NotCalled
    /\ genOut' = Returned(kepler_fallback_trajectory(genIn.start, genIn.end, genIn.step))
    /\ UNCHANGED <<genIn, findVars, orbitVars, updVars, parseVars, mergeVars, buildVars>>

CallFallback ==
    /\ genIn.gen = "generate_fallback_trajectory"
    /\ genOut = NotCalled
    /\ genOut' = IF fallback_loop_raises(4 * genIn.start, 4 * genIn.end, genIn.step)
                 THEN Raised("OverflowError")
                 ELSE Returned(generate_fallback_trajectory(genIn.start, genIn.end, genIn.step))
    /\ UNCHANGED <<genIn, findVars, orbitVars, updVars, parseVars, mergeVars, buildVars>>

CallPlanetOrbit ==
    /\ genIn.gen = "generate_planet_orbit"
    /\ genOut = NotCalled
    /\ genOut' = Returned(generate_planet_orbit(genIn.planet, genIn.start, genIn.end,
                                                genIn.step))
    /\ UNCHANGED <<genIn, findVars, orbitVars, updVars, parseVars, mergeVars, buildVars>>

GenNext == CallKepler \/ CallFallback \/ CallPlanetOrbit

SpecGen == GenInit /\ [][GenNext]_vars

GenCalled == genOut # NotCalled

KnownBody == genIn.gen = "generate_planet_orbit" => genIn.planet \in PlanetParams

\* the epochs start, start + step, ... up to end
EpochAt(k) == 4 * genIn.start + (k - 1) * genIn.step

\* C23: a fallback generator called with start <= end and a positive step
\* returns floor((end - start) / step) + 1 points with the epochs start,
\* start + step, ..., strictly increasing and within [start, end]; called
\* with start > end it returns no point.
C23_GeneratorCoversInterval ==
    (GenCalled /\ KnownBody) =>
        /\ genOut.raised = ""
        /\ IF genIn.start > genIn.end
           THEN genOut.rows = <<>>
           ELSE /\ Len(genOut.rows) = (4 * (genIn.end - genIn.start)) \div genIn.step + 1
                /\ \A k \in 1..Len(genOut.rows) :
                      /\ genOut.rows[k].date = IsoDate(EpochAt(k))
                      /\ EpochAt(k) >= 4 * genIn.start
                      /\ EpochAt(k) <= 4 * genIn.end
                /\ \A k \in 1..(Len(genOut.rows) - 1) : EpochAt(k) < EpochAt(k + 1)

(***************************************************************************)
(* update_trajectory_data: runs of the whole update over the data file     *)
(***************************************************************************)
\* most updates in a row
MaxUpdates == 2

ROLLING_WINDOW_DAYS == 7

\* the content of a data file
File(series, msKey, milestones) ==
    [exists |-> TRUE, series |-> series, msKey |-> msKey, milestones |-> milestones]

\* the file generate_trajectory_data writes when the object's series is atlas
\* and the planets' requests gave rows, Jupiter's excepted
GtdFile(atlas) ==
    File([k \in {"atlas", "earth", "mars", "jupiter"} |->
             IF k = "atlas" THEN atlas
             ELSE IF k = "jupiter" THEN <<>>
             ELSE FetchedRows("generate_trajectory_data")],
         TRUE, milestones_with_positions(atlas, MILESTONES))

\* DATA_FILE before the first update, as generate_trajectory_data wrote it:
\* from parsed rows or from the Kepler fallback
InitialFiles ==
    {GtdFile(FetchedRows("generate_trajectory_data")),
     GtdFile(kepler_fallback_trajectory(StartDay, EndDay, 1))}

\* datetime.now() of an update, in quarter days: day 90 at 00:00, day 91 at 12:00
UpdateNows == {360, 366}

\* what fetch_horizons_data returns for the window that starts on start_date:
\* None, or the parsed rows of the response
FetchedNone == [none |-> TRUE, rows |-> <<>>]
FetchedWindow(start_date) ==
    [none |-> FALSE,
     rows |-> <<SeriesPoint("mon", start_date, 0, 2), SeriesPoint("mon", start_date + 1, 0, 2)>>]

ObjectNames == {OBJECTS[k].key : k \in 1..Len(OBJECTS)}

\* load_existing_data: {} when the file is missing
load_existing_data(file) == IF file.exists THEN file ELSE File(<<>>, FALSE, <<>>)

\* lines 131-141: the new data of a body, or skip for the "continue"
new_data(name, fetched, start_date) ==
    IF ~fetched.none THEN [skip |-> FALSE, rows |-> fetched.rows]
    ELSE IF name = "atlas"
    THEN [skip |-> FALSE,
          rows |-> kepler_fallback_trajectory(start_date, start_date + ROLLING_WINDOW_DAYS, 1)]
    ELSE [skip |-> TRUE, rows |-> <<>>]

\* a loop that stores an empty series for a planet whose fetch failed, as
\* generate_trajectory_data does
RECURSIVE update_loop_storing_empty(_, _, _, _, _)
update_loop_storing_empty(names, existing_data, updated_data, fetches, clock) ==
    IF names = <<>> THEN updated_data
    ELSE LET name == Head(names).key
             nd   == new_data(name, fetches[name], clock \div 4)
             mt   == merge_trajectory_data(Get(existing_data, name), nd.rows)
         IN  update_loop_storing_empty(
                 Tail(names), existing_data,
                 Put(updated_data, name,
                     IF nd.skip THEN <<>> ELSE prune_old_data(mt.rows, clock)),
                 fetches, clock)

\* the loop of lines 129-154: fetch, "continue" for a failed planet, else
\* merge, prune, store
RECURSIVE update_loop(_, _, _, _, _)
update_loop(names, existing_data, updated_data, fetches, clock) ==
    IF names = <<>> THEN updated_data
    ELSE LET name == Head(names).key
             nd   == new_data(name, fetches[name], clock \div 4)
             mt   == merge_trajectory_data(Get(existing_data, name), nd.rows)
         IN  IF nd.skip
             THEN update_loop(Tail(names), existing_data, updated_data, fetches, clock)
             ELSE update_loop(Tail(names), existing_data,
                              Put(updated_data, name, prune_old_data(mt.rows, clock)),
                              fetches, clock)

\* lines 156-171: the stored milestones that get a position from the series
updated_milestones(existing_data, series) ==
    IF existing_data.msKey /\ "atlas" \in DOMAIN series
    THEN milestones_with_positions(series["atlas"], existing_data.milestones)
    ELSE existing_data.milestones

MilestoneNames(ms) == {ms[k].name : k \in 1..Len(ms)}

UpdInit ==
    /\ ParseIdle
    /\ MergeIdle
    /\ BuildIdle
    /\ FindIdle
    /\ OrbitIdle
    /\ GenIdle
    /\ stored \in InitialFiles
    /\ lastUpdate = [NoUpdate EXCEPT !.everHad = MilestoneNames(stored.milestones)]

\* one run of update_trajectory_data; the json.dump at its end succeeds or not
Update(fetches, clock, saved) ==
    /\ lastUpdate.round < MaxUpdates
    /\ clock >= lastUpdate.clock
    /\ LET existing_data == load_existing_data(stored)
           series        == update_loop(OBJECTS, existing_data.series, existing_data.series,
                                        fetches, clock)
           updated       == File(series, existing_data.msKey,
                                 updated_milestones(existing_data, series))
       IN  /\ stored' = IF saved THEN updated ELSE stored
           /\ lastUpdate' =
                 [round |-> lastUpdate.round + 1, status |-> "returned", clock |-> clock,
                  none |-> {n \in ObjectNames : fetches[n].none},
                  before |-> stored, ok |-> saved,
                  everHad |-> lastUpdate.everHad]
    /\ UNCHANGED <<findVars, orbitVars, genVars, parseVars, mergeVars, buildVars>>

UpdNext ==
    \E clock \in UpdateNows, saved \in BOOLEAN :
        \E fetches \in [ObjectNames -> {FetchedNone, FetchedWindow(clock \div 4)}] :
            Update(fetches, clock, saved)

SpecUpdate == UpdInit /\ [][UpdNext]_vars

(***************************************************************************)
(* Claims about update_trajectory_data                                     *)
(***************************************************************************)
Updated == lastUpdate.status = "returned"

\* C24: when the fetch for a planet fails in an update, the planet's stored
\* series after the update is what it was before: the same points in the
\* same order, and the key neither added nor removed.
C24_FailedPlanetKeepsStoredSeries ==
    Updated =>
        \A name \in lastUpdate.none \ {"atlas"} :
            /\ (name \in DOMAIN stored.series) <=> (name \in DOMAIN lastUpdate.before.series)
            /\ Get(stored.series, name) = Get(lastUpdate.before.series, name)

\* a saved update in which Earth's fetch failed and Mars's did not
C24_Witness ==
    /\ Updated
    /\ lastUpdate.ok
    /\ lastUpdate.none = {"earth"}
    /\ stored.series["earth"] # <<>>
    /\ stored.series["earth"] = lastUpdate.before.series["earth"]
    /\ stored.series["mars"] # lastUpdate.before.series["mars"]

(***************************************************************************)
(* prune_old_data: what it keeps                                           *)
(***************************************************************************)
Occurrences(series, p) == Cardinality({k \in 1..Len(series) : series[k] = p})

\* s holds points of t only, none more often than t does, neighbours of s in
\* the order they have in t: s is t with some points left out
LeftOutSome(s, t) ==
    /\ Len(s) <= Len(t)
    /\ \A i \in 1..Len(s) : Occurrences(s, s[i]) <= Occurrences(t, s[i])
    /\ \A i \in 1..(Len(s) - 1) :
          \E k, l \in 1..Len(t) : k < l /\ t[k] = s[i] /\ t[l] = s[i + 1]

PruneReturned == pruned # NotCalled

\* C25: prune_old_data returns its input with some points left out: kept
\* points are unmodified and in input order, none is added, and a point
\* whose date is not an ISO calendar date is kept whatever the cutoff.
C25_PruneReturnsSubsequence ==
    PruneReturned =>
        /\ LeftOutSome(pruned.rows, merged.rows)
        /\ \A k \in 1..Len(merged.rows) :
              ~IsoParses(merged.rows[k]) =>
                  Occurrences(pruned.rows, merged.rows[k]) = Occurrences(merged.rows, merged.rows[k])

\* a prune that dropped a point of day 60 and kept a month-name point of the
\* same day, 31 days before the update
C25_Witness ==
    /\ PruneReturned
    /\ now >= 4 * 91
    /\ Len(pruned.rows) < Len(merged.rows)
    /\ \E k \in 1..Len(merged.rows) :
          /\ merged.rows[k].date = DateStr("iso", 60, 0)
          /\ Occurrences(pruned.rows, merged.rows[k]) = 0
    /\ \E k \in 1..Len(pruned.rows) :
          /\ pruned.rows[k].date.fmt = "mon"
          /\ pruned.rows[k].date.day = 60

(***************************************************************************)
(* generate_static_data: the cache                                         *)
(***************************************************************************)
\* the static file is there, reads as JSON with a timestamp, and its age in
\* whole days is below the limit
FreshCache(force_api, cache) ==
    /\ ~force_api
    /\ cache.state = "readable"
    /\ cache.age < CACHE_TTL_DAYS

\* the step from the cache check
CacheStep(force_api, cache) ==
    CheckCache(force_api, cache) =>
        IF FreshCache(force_api, cache)
        THEN /\ built'.status = "returned"
             /\ built'.written = "no"
             /\ data' = CachedData
             /\ failed' = failed
        ELSE /\ built'.status = "running"
             /\ bodyIdx' = 1
             /\ data' = EmptyStaticData

\* the step that ends a run that was not served from the cache
StaticRunEnds ==
    /\ entry = "generate_static_data"
    /\ bodyIdx >= 1
    /\ built.status = "running"
    /\ built'.status = "returned"

AllRegenerated ==
    /\ bodyIdx = Len(StaticBodies) + 1
    /\ \A k \in 1..Len(StaticBodies) :
          /\ StaticBodies[k].key \in DOMAIN data
          /\ data[StaticBodies[k].key]
                = OwnResult(entry, StaticBodies[k], StaticBodies[k].key \in failed)
          /\ data[StaticBodies[k].key] # <<>>

\* nothing is fetched or written once the run has returned
NothingAfterReturn ==
    (entry = "generate_static_data" /\ built.status = "returned") => UNCHANGED vars

C27_EveryMilestoneGetsPosition ==
    (GtdReturned /\ Get(data, "atlas") # <<>>) =>
        /\ Len(built.milestones) = Len(MILESTONES)
        /\ \A k \in 1..Len(MILESTONES) : built.milestones[k].name = MILESTONES[k].name

(***************************************************************************)
(* update_trajectory_data: the stored milestones                           *)
(***************************************************************************)
\* find_position_at_date finds a position in the series: some point of it
\* has an ISO date
Locatable(series) == \E k \in 1..Len(series) : IsoParses(series[k])

\* C28: over any sequence of updates the stored milestone list loses no
\* milestone for good: after a saved update in which the object's series
\* allows a date to be located, every milestone the file held before the
\* first update is in the list again.
C28_MilestonesComeBack ==
    (Updated /\ lastUpdate.ok /\ Locatable(Get(stored.series, "atlas"))) =>
        lastUpdate.everHad \subseteq MilestoneNames(stored.milestones)

(***************************************************************************)
(* merge_trajectory_data: merging twice, and points without a date         *)
(***************************************************************************)
\* C29: merging the same new series a second time changes nothing:
\* merge(merge(A, B), B) = merge(A, B) for all series A and B, also when A
\* is empty and B holds several points of one calendar date.
C29_MergeIdempotentInNew ==
    MergeReturned =>
        merge_trajectory_data(merged.rows, newData) = Returned(merged.rows)

MergeCalled == merged # NotCalled

Dated(series) == SelectSeq(series, LAMBDA p : ~HasNoDate(p))

\* C30: merge_trajectory_data does not fail on a point whose date is missing
\* or empty: with both inputs non-empty such a point is left out of the
\* result, and the other points are merged as if it were not there.
C30_DatelessPointsLeftOut ==
    (MergeCalled /\ existing # <<>> /\ newData # <<>>) =>
        /\ merged.raised = ""
        /\ \A k \in 1..Len(merged.rows) : ~HasNoDate(merged.rows[k])
        /\ merged = merge_trajectory_data(Dated(existing), Dated(newData))

====
